---- MODULE Spec2Model ----
(***************************************************************************)
(* Model of the "imbalancer" load-balancing policy                         *)
(* (src/core/load_balancing/imbalancer/imbalancer.cc): class ImbalancerLb, *)
(* a delegating policy that owns one child policy created by name through  *)
(* the LB policy registry.                                                 *)
(*                                                                         *)
(* UpdateLocked is modelled in the steps at which its callees run, so that *)
(* the states inside one call are visible:                                 *)
(*   UpdateLocked_Enter          lines 57-65 (and 72-73 when no child is   *)
(*                               needed)                                   *)
(*   CreateLoadBalancingPolicy   lines 94-102, the registry's factory call *)
(*   UpdateLocked_Assign         lines 66-69, the move-assignment of the   *)
(*                               result to child_policy_                   *)
(*   UpdateLocked_Forward        lines 72-74, the child's UpdateLocked     *)
(* All calls run in the work serializer: a call starts only when no other  *)
(* call is in progress (pc = "idle").                                      *)
(***************************************************************************)
EXTENDS Integers, Sequences, FiniteSets, TLC

\* ------------------------------------------------------------------ bounds
\* Number of calls (UpdateLocked, ExitIdleLocked, ResetBackoffLocked,
\* ShutdownLocked) the framework makes on one policy instance.
MaxCalls == 5

\* Number of callbacks the producers hand to the work serializer.
MaxScheduled == 3

\* ------------------------------------------------------------ input values
\* Child policy names an ImbalancerConfig can carry.  The registry has a
\* factory for the names in Registered only.
Names == {"round_robin", "pick_first", "does_not_exist", ""}

Registered == {"round_robin", "pick_first"}

\* Child configurations (RefCountedPtr<Config> held by ImbalancerConfig).
ChildConfigs == {"child_cfg_1", "child_cfg_2"}

\* What a read through a mistyped pointer yields for the child config.
Garbage == "garbage"

\* args.config of UpdateArgs: null, an ImbalancerConfig, or a Config of
\* another class.
NullConfig == [kind |-> "null", child_policy_name |-> "", child_config |-> "none"]

OtherConfig == [kind |-> "other", child_policy_name |-> "", child_config |-> "none"]

ImbalancerConfig(n, c) == [kind |-> "imbalancer", child_policy_name |-> n, child_config |-> c]

Configs ==
  {NullConfig, OtherConfig} \cup {ImbalancerConfig(n, c) : n \in Names, c \in ChildConfigs}

\* child_policy_ == nullptr
NullChild == 0

\* The child instances that can exist: each call creates at most one.
InstanceIds == 1..MaxCalls

\* absl::Status values
OkStatus == [code |-> "OK", msg |-> ""]

MissingConfigStatus == [code |-> "INVALID_ARGUMENT", msg |-> "imbalancer: missing config"]

FailedToCreateStatus ==
  [code |-> "INVALID_ARGUMENT", msg |-> "imbalancer: failed to create child policy"]

\* A failure status returned by a child policy's UpdateLocked.
ChildErrorStatus == [code |-> "UNAVAILABLE", msg |-> "child update failed"]

ChildResults == {OkStatus, ChildErrorStatus}

NoStatus == [code |-> "NONE", msg |-> ""]

\* Json (src/core/util/json/json.h): a value has a type and, but for null,
\* the content of that type.
JsonNull == [type |-> "null"]

FromNumber(n) == [type |-> "number", number |-> n]

FromString(s) == [type |-> "string", string |-> s]

FromArray(a) == [type |-> "array", array |-> a]

FromObject(o) == [type |-> "object", object |-> o]

\* The members of Json::FromObject({}).
NoMembers == [k \in {} |-> JsonNull]

\* One member, key k with value v.
Member(k, v) == [x \in {k} |-> v]

\* Objects given as a child policy's configuration: the empty one, one with
\* a setting of the type the child expects, one with a setting of another.
ChildObjects ==
  {FromObject(NoMembers),
   FromObject(Member("setting", FromNumber(7))),
   FromObject(Member("setting", FromString("x")))}

\* Values a field of the raw input can have.
FieldValues ==
  {JsonNull, FromNumber(123), FromArray(<<>>)}
    \cup {FromString(s) : s \in Names \cup {"x"}}
    \cup ChildObjects

\* Keys of the raw input: the two the parser looks up and one it does not.
Keys == {"childPolicy", "childPolicyConfig", "other"}

\* The raw inputs of ParseLoadBalancingConfig: values that are no object,
\* and objects with any of the keys, each with any of the values.
RawInputs ==
  FieldValues \cup {FromObject(m) : m \in UNION {[K -> FieldValues] : K \in SUBSET Keys}}

\* absl::StatusOr<RefCountedPtr<Config>>: a value, or a status that is not OK.
Ok(v) == [ok |-> TRUE, status |-> OkStatus, value |-> v]

Err(st) == [ok |-> FALSE, status |-> st, value |-> NullConfig]

\* No StatusOr yet.
NotParsed == Err(NoStatus)

\* The registry's errors of parsing a configuration list.
UnknownChildPolicyStatus == [code |-> "UnknownChildPolicy", msg |-> "unknown policy name"]

InvalidChildConfigurationStatus ==
  [code |-> "InvalidChildConfiguration", msg |-> "invalid child configuration"]

\* ------------------------------------------------------------------- state
VARIABLES
  shutting_down_,      \* ImbalancerLb::shutting_down_
  child_policy_name_,  \* ImbalancerLb::child_policy_name_
  child_policy_,       \* ImbalancerLb::child_policy_: NullChild or an instance
  instances,           \* instances[i]: name child instance i was created under
  live,                \* instances created and not yet orphaned
  pc,                  \* position of the call in progress, "idle" between calls
  config,              \* UpdateLocked's local `config` (result of the cast)
  new_child,           \* value returned by CreateChildPolicy
  events,              \* registry and child calls made by the current call
  status,              \* value returned by the last completed UpdateLocked
  entry,               \* the call in progress or last completed: its name,
                       \* argument and the members' values when it started
  calls,               \* number of calls started
  undefined,           \* a Config of another class has been read through the
                       \* cast pointer: the behaviour is undefined from here on
  orphans,             \* orphans[i]: how many times the engine has orphaned
                       \* child instance i
  child_status,        \* what the child's UpdateLocked returned to the current
                       \* call, NoStatus when the call has not called it
  engine_refs,         \* reference count of the ImbalancerLb; 0: destroyed
  owner_ref,           \* the channel still holds the reference it created the
                       \* policy with
  adapters,            \* child instances not yet destroyed: each owns the Helper
                       \* it was created with
  relayed,             \* the report the current call passed on to the channel's
                       \* helper, NoReport when none
  queue,               \* work serializer: callbacks scheduled and not yet run
  submitted,           \* every callback scheduled, in the order of scheduling
  started,             \* every scheduled callback run, in the order of running
  child_log,           \* the registry and child calls of the scheduled callbacks
                       \* that have returned, each with its callback's rank
  json,                \* ParseLoadBalancingConfig: the raw input
  parse_pc,            \* position in ParseLoadBalancingConfig, "off" when it
                       \* is not called
  child_policy,        \* local child_policy
  child_config,        \* local child_config
  child_config_or,     \* local child_config_or, the registry's StatusOr
  parsed               \* the StatusOr ParseLoadBalancingConfig returns

vars ==
  <<shutting_down_, child_policy_name_, child_policy_, instances, live, pc,
    config, new_child, events, status, entry, calls, undefined, orphans,
    child_status, engine_refs, owner_ref, adapters, relayed, queue, submitted,
    started, child_log, json, parse_pc, child_policy, child_config,
    child_config_or, parsed>>

\* The state of ParseLoadBalancingConfig.
parser_vars == <<json, parse_pc, child_policy, child_config, child_config_or, parsed>>

\* The state of the work serializer.
serial_vars == <<queue, submitted, started, child_log>>

\* The members of the Helper-related state that the calls on the engine, other
\* than the creation of a child, leave alone.
helper_vars == <<engine_refs, owner_ref, adapters>>

\* The reports a child makes through its channel control helper.
ReportKinds == {"UpdateState", "RequestReresolution"}

NoReport == [child |-> NullChild, kind |-> "none"]

NoConfigRead == [child_policy_name |-> "", child_config |-> "none"]

Event(o, c, cfg) == [op |-> o, child |-> c, config |-> cfg]

Snapshot(o, a) ==
  [op |-> o, args |-> a, child |-> child_policy_, name |-> child_policy_name_,
   shutting_down |-> shutting_down_, status |-> status]

\* A policy as constructed, with no call made on it.
NewPolicy ==
  /\ shutting_down_ = FALSE
  /\ child_policy_name_ = ""
  /\ child_policy_ = NullChild
  /\ instances = <<>>
  /\ live = {}
  /\ pc = "idle"
  /\ config = NoConfigRead
  /\ new_child = NullChild
  /\ events = <<>>
  /\ status = NoStatus
  /\ entry = [op |-> "none", args |-> NullConfig, child |-> NullChild, name |-> "",
              shutting_down |-> FALSE, status |-> NoStatus]
  /\ calls = 0
  /\ undefined = FALSE
  /\ child_status = NoStatus
  /\ orphans = <<>>
  /\ engine_refs = 1
  /\ owner_ref = TRUE
  /\ adapters = {}
  /\ relayed = NoReport
  /\ queue = <<>>
  /\ submitted = <<>>
  /\ started = <<>>
  /\ child_log = <<>>

\* The locals of ParseLoadBalancingConfig before its first statement.
ParseLocals ==
  /\ child_policy = ""
  /\ child_config = JsonNull
  /\ child_config_or = NotParsed
  /\ parsed = NotParsed

Init ==
  /\ NewPolicy
  /\ json = JsonNull
  /\ parse_pc = "off"
  /\ ParseLocals

\* ParseLoadBalancingConfig is called with any raw input.
InitParse ==
  /\ NewPolicy
  /\ json \in RawInputs
  /\ parse_pc = "fields"
  /\ ParseLocals

\* ----------------------------------------------------------- code fragments
\* UpdateSkipped without the shutting_down_ test.
UpdateNeverSkipped(sd) == FALSE

\* line 57: the early return of UpdateLocked.
UpdateSkipped(sd) == sd

\* ConfigIsNull without the null test.
ConfigNeverNull(a) == FALSE

\* line 59: config == nullptr.  A static_cast maps only the null pointer to
\* null, whatever the class of the object pointed to.
ConfigIsNull(a) == a.kind = "null"

\* line 58: what the members of *config read as.  For an ImbalancerConfig
\* they are the values it was constructed with (lines 33-36, 40-43).  For an
\* object of another class the cast is unchecked and the reads are undefined:
\* any name, and a child config that is not one.
StaticCast(a) ==
  IF a.kind = "imbalancer"
    THEN {[child_policy_name |-> a.child_policy_name, child_config |-> a.child_config]}
    ELSE {[child_policy_name |-> n, child_config |-> Garbage] : n \in Names}

\* NeedsNewChild without the test for a missing child.
NeedsNewChildOnNameOnly(child, name, requested) == name # requested

\* NeedsNewChild with the name comparison inverted (== for !=).
NeedsNewChildOnSameName(child, name, requested) == child = NullChild \/ name = requested

\* lines 63-64: the condition under which a child is created.
NeedsNewChild(child, name, requested) == child = NullChild \/ name # requested

\* line 65: the new value of child_policy_name_.
AssignedName(name, requested) == requested

\* lines 101-102: what the registry's CreateLoadBalancingPolicy can return for
\* a name: a new instance (TRUE) only for a registered name, or nullptr
\* (FALSE).
RegistryOutcomes(name) == IF name \in Registered THEN {TRUE, FALSE} ELSE {FALSE}

\* Reset that releases the previous instance without orphaning it.
ResetLeak(ptr, lv, new) == [ptr |-> new, live |-> lv, orphaned |-> NullChild]

\* Reset that keeps the previous instance when the new pointer is null.
ResetKeepsOnNull(ptr, lv, new) ==
  IF new = NullChild
    THEN [ptr |-> ptr, live |-> lv, orphaned |-> NullChild]
    ELSE [ptr |-> new, live |-> IF ptr # NullChild THEN lv \ {ptr} ELSE lv,
          orphaned |-> ptr]

\* Reset that orphans the instance held but leaves the pointer to it in place
\* when the new pointer is null.
ResetLeavesDangling(ptr, lv, new) ==
  [ptr |-> IF new = NullChild THEN ptr ELSE new,
   live |-> IF ptr # NullChild THEN lv \ {ptr} ELSE lv,
   orphaned |-> ptr]

\* OrphanablePtr move-assignment and reset() (lines 66, 107): the pointer
\* takes the new value and the instance it held, if any, is orphaned.
Reset(ptr, lv, new) ==
  [ptr |-> new, live |-> IF ptr # NullChild THEN lv \ {ptr} ELSE lv, orphaned |-> ptr]

\* The orphan counts after instance c (if any) has been orphaned.
Orphaned(o, c) == IF c # NullChild THEN [o EXCEPT ![c] = @ + 1] ELSE o

\* CreationFailed with the test inverted (!= for ==).
CreationFailedInverted(child) == child # NullChild

\* line 67: child_policy_ == nullptr after the assignment.
CreationFailed(child) == child = NullChild

\* line 73: the config handed to the child.
ChildArgsConfig(cfg) == cfg.child_config

\* ShutdownLocked that leaves shutting_down_ false.
ShutdownFlagNotSet == FALSE

\* line 106: the value ShutdownLocked gives shutting_down_.
ShutdownFlag == TRUE

\* ReturnedStatus that reports success whatever the child returned.
ReturnedStatusSwallowed(r) == OkStatus

\* line 74: the value UpdateLocked returns, given the child's result.
ReturnedStatus(r) == r

\* HasChild with the test inverted (== for !=).
HasChildInverted(child) == child = NullChild

\* lines 78, 82: whether ExitIdleLocked / ResetBackoffLocked forward.
HasChild(child) == child # NullChild

\* Helper built from the parent without taking a reference.
HelperRefNotTaken(refs) == refs

\* line 100: Ref(DEBUG_LOCATION, "ImbalancerLbHelper"), the reference the new
\* Helper holds.
HelperRef(refs) == refs + 1

\* The release of one reference: a Helper's destructor drops the reference it
\* was constructed with (line 91 hands it to the base class), the channel
\* drops its own after ShutdownLocked.
Unref(refs) == refs - 1

\* Whether a Helper passes a child's report on to the channel's helper, given
\* the parent's shutting_down_.  Helper (lines 86-92) declares a constructor
\* only: every report goes through the base class, which passes it on as is.
HelperRelays(sd) == TRUE

\* A callback handed to the work serializer: a call on the engine, or a
\* report of child c, scheduled by producer p.
Callback(op, a, c, k, p) == [op |-> op, args |-> a, child |-> c, kind |-> k, by |-> p]

\* Enqueue that puts the callback in front of those waiting.
EnqueueInFront(q, cb) == <<cb>> \o q

\* Work serializer: a scheduled callback goes behind those waiting.
Enqueue(q, cb) == Append(q, cb)

\* The calls evs, each with the rank n of the callback that made them.
Tagged(evs, n) == [k \in 1..Len(evs) |-> [call |-> n, event |-> evs[k]]]

\* Work serializer: how a call comes to run.  With nothing scheduled the
\* caller is in the serializer already and calls directly; otherwise the
\* callback at the head of the queue is taken.
Dispatch(op, a) ==
  \/ /\ queue = <<>>
     /\ calls < MaxCalls
     /\ UNCHANGED serial_vars
  \/ /\ queue # <<>>
     /\ Head(queue).op = op
     /\ Head(queue).args = a
     /\ queue' = Tail(queue)
     /\ started' = Append(started, Head(queue))
     /\ child_log' = child_log \o Tagged(events, Len(started))
     /\ UNCHANGED submitted

\* The start of a call in the work serializer: no other call is in progress
\* and the policy exists; the call's name, argument and the members' values
\* are noted.
Begin(op, a) ==
  /\ pc = "idle"
  /\ engine_refs > 0
  /\ Dispatch(op, a)
  /\ UNCHANGED parser_vars
  /\ calls' = calls + 1
  /\ entry' = Snapshot(op, a)
  /\ child_status' = NoStatus

\* ----------------------------------------------------------------- actions
\* UpdateLocked, lines 56-65: the early returns, the cast, the decision to
\* create a child and the assignment of child_policy_name_.
UpdateLocked_Enter(a) ==
  /\ Begin("UpdateLocked", a)
  /\ relayed' = NoReport
  /\ UNCHANGED helper_vars
  /\ events' = <<>>
  /\ new_child' = NullChild
  /\ UNCHANGED <<shutting_down_, child_policy_, instances, live, orphans>>
  /\ IF UpdateSkipped(shutting_down_)
       THEN /\ status' = OkStatus
            /\ pc' = "idle"
            /\ config' = NoConfigRead
            /\ UNCHANGED <<child_policy_name_, undefined>>
       ELSE IF ConfigIsNull(a)
         THEN /\ status' = MissingConfigStatus
              /\ pc' = "idle"
              /\ config' = NoConfigRead
              /\ UNCHANGED <<child_policy_name_, undefined>>
         ELSE \E c \in StaticCast(a) :
              /\ config' = c
              /\ undefined' = (undefined \/ a.kind # "imbalancer")
              /\ status' = NoStatus
              /\ IF NeedsNewChild(child_policy_, child_policy_name_, c.child_policy_name)
                   THEN /\ child_policy_name_' =
                             AssignedName(child_policy_name_, c.child_policy_name)
                        /\ pc' = "create"
                   ELSE /\ UNCHANGED child_policy_name_
                        /\ pc' = "forward"

\* UpdateLocked, lines 58, 64: an object of another class read through the
\* cast pointer.  Besides yielding arbitrary values (StaticCast) the read can
\* fault, which ends the process.
UpdateLocked_Fault(a) ==
  /\ Begin("UpdateLocked", a)
  /\ relayed' = NoReport
  /\ UNCHANGED helper_vars
  /\ ~UpdateSkipped(shutting_down_)
  /\ a.kind = "other"
  /\ events' = <<>>
  /\ new_child' = NullChild
  /\ undefined' = TRUE
  /\ pc' = "crashed"
  /\ UNCHANGED <<shutting_down_, child_policy_name_, child_policy_, instances, live,
                 config, status, orphans>>

\* CreateChildPolicy, lines 94-102: a Helper holding a new reference to the
\* engine is built and handed to the registry's factory, which runs while
\* child_policy_ still holds the previous child.  The instance returned owns
\* the Helper; when none is returned the Helper is destroyed with the
\* arguments.
CreateLoadBalancingPolicy ==
  /\ pc = "create"
  /\ \E ok \in RegistryOutcomes(child_policy_name_) :
       IF ok
         THEN /\ instances' = Append(instances, child_policy_name_)
              /\ orphans' = Append(orphans, 0)
              /\ new_child' = Len(instances) + 1
              /\ live' = live \cup {Len(instances) + 1}
              /\ adapters' = adapters \cup {Len(instances) + 1}
              /\ engine_refs' = HelperRef(engine_refs)
         ELSE /\ new_child' = NullChild
              /\ engine_refs' = Unref(HelperRef(engine_refs))
              /\ UNCHANGED <<instances, orphans, live, adapters>>
  /\ UNCHANGED <<owner_ref, relayed, serial_vars, parser_vars>>
  /\ events' = Append(events, Event("Create", new_child', child_policy_name_))
  /\ pc' = "assign"
  /\ UNCHANGED <<shutting_down_, child_policy_name_, child_policy_, config, status,
                 entry, calls, undefined, child_status>>

\* UpdateLocked, lines 66-69: the returned pointer is move-assigned to
\* child_policy_, which orphans the previous child; a null result is the
\* "failed to create child policy" error.
UpdateLocked_Assign ==
  /\ pc = "assign"
  /\ UNCHANGED <<helper_vars, relayed, serial_vars, parser_vars>>
  /\ LET r == Reset(child_policy_, live, new_child) IN
       /\ child_policy_' = r.ptr
       /\ live' = r.live
       /\ orphans' = Orphaned(orphans, r.orphaned)
       /\ events' = IF r.live # live
                      THEN Append(events, Event("Orphan", child_policy_, "none"))
                      ELSE events
       /\ IF CreationFailed(r.ptr)
            THEN /\ status' = FailedToCreateStatus
                 /\ pc' = "idle"
            ELSE /\ UNCHANGED status
                 /\ pc' = "forward"
  /\ UNCHANGED <<shutting_down_, child_policy_name_, instances, config, new_child,
                 entry, calls, undefined, child_status>>

\* UpdateLocked, lines 72-74: the child's UpdateLocked is called with the
\* child's config and its result is returned.
UpdateLocked_Forward ==
  /\ pc = "forward"
  /\ UNCHANGED <<helper_vars, relayed, serial_vars, parser_vars>>
  /\ \E r \in ChildResults :
       /\ child_status' = r
       /\ status' = ReturnedStatus(r)
  /\ events' = Append(events, Event("UpdateLocked", child_policy_, ChildArgsConfig(config)))
  /\ pc' = "idle"
  /\ UNCHANGED <<shutting_down_, child_policy_name_, child_policy_, instances, live,
                 config, new_child, entry, calls, undefined, orphans>>

\* ExitIdleLocked, lines 77-79.
ExitIdleLocked ==
  /\ Begin("ExitIdleLocked", NullConfig)
  /\ relayed' = NoReport
  /\ UNCHANGED helper_vars
  /\ events' = IF HasChild(child_policy_)
                 THEN <<Event("ExitIdleLocked", child_policy_, "none")>>
                 ELSE <<>>
  /\ UNCHANGED <<shutting_down_, child_policy_name_, child_policy_, instances, live,
                 pc, config, new_child, status, undefined, orphans>>

\* ResetBackoffLocked, lines 81-83.
ResetBackoffLocked ==
  /\ Begin("ResetBackoffLocked", NullConfig)
  /\ relayed' = NoReport
  /\ UNCHANGED helper_vars
  /\ events' = IF HasChild(child_policy_)
                 THEN <<Event("ResetBackoffLocked", child_policy_, "none")>>
                 ELSE <<>>
  /\ UNCHANGED <<shutting_down_, child_policy_name_, child_policy_, instances, live,
                 pc, config, new_child, status, undefined, orphans>>

\* ShutdownLocked, lines 105-108.
ShutdownLocked ==
  /\ Begin("ShutdownLocked", NullConfig)
  /\ relayed' = NoReport
  /\ UNCHANGED helper_vars
  /\ shutting_down_' = ShutdownFlag
  /\ LET r == Reset(child_policy_, live, NullChild) IN
       /\ child_policy_' = r.ptr
       /\ live' = r.live
       /\ orphans' = Orphaned(orphans, r.orphaned)
       /\ events' = IF r.live # live
                      THEN <<Event("Orphan", child_policy_, "none")>>
                      ELSE <<>>
  /\ UNCHANGED <<child_policy_name_, instances, pc, config, new_child, status, undefined>>

\* A child reports through its Helper (lines 86-92); the report runs in the
\* work serializer like the calls on the engine.
Report(c, k) ==
  /\ c \in adapters
  /\ Begin("Report", NullConfig)
  /\ queue # <<>> => (Head(queue).child = c /\ Head(queue).kind = k)
  /\ events' = <<>>
  /\ relayed' = IF HelperRelays(shutting_down_)
                  THEN [child |-> c, kind |-> k]
                  ELSE NoReport
  /\ UNCHANGED <<shutting_down_, child_policy_name_, child_policy_, instances, live,
                 pc, config, new_child, status, undefined, orphans, helper_vars>>

\* The engine's members and the state of the call in progress.
engine_vars ==
  <<shutting_down_, child_policy_name_, child_policy_, instances, live, pc, config,
    new_child, events, status, entry, calls, undefined, orphans, child_status, relayed>>

\* An orphaned child instance is destroyed, and with it the Helper it owns.
ChildDestroyed(c) ==
  /\ pc # "crashed"
  /\ c \in adapters \ live
  /\ adapters' = adapters \ {c}
  /\ engine_refs' = Unref(engine_refs)
  /\ UNCHANGED <<engine_vars, owner_ref, serial_vars, parser_vars>>

\* The channel, having shut the policy down, drops its reference to it.
OwnerUnref ==
  /\ pc = "idle"
  /\ shutting_down_
  /\ owner_ref
  /\ owner_ref' = FALSE
  /\ engine_refs' = Unref(engine_refs)
  /\ UNCHANGED <<engine_vars, adapters, serial_vars, parser_vars>>

Next ==
  \/ \E a \in Configs : UpdateLocked_Enter(a)
  \/ \E a \in Configs : UpdateLocked_Fault(a)
  \/ CreateLoadBalancingPolicy
  \/ UpdateLocked_Assign
  \/ UpdateLocked_Forward
  \/ ExitIdleLocked
  \/ ResetBackoffLocked
  \/ ShutdownLocked
  \/ \E c \in InstanceIds, k \in ReportKinds : Report(c, k)
  \/ \E c \in InstanceIds : ChildDestroyed(c)
  \/ OwnerUnref

Spec == Init /\ [][Next]_vars

\* ---------------------------------------------- calls through the serializer
\* The Configs of the two updates that are scheduled.
ConfigA == ImbalancerConfig("round_robin", "child_cfg_1")

ConfigB == ImbalancerConfig("pick_first", "child_cfg_2")

\* What each of the two producers schedules.
ProducerCalls(p) ==
  IF p = 1
    THEN {Callback("UpdateLocked", ConfigA, NullChild, "none", 1),
          Callback("ExitIdleLocked", NullConfig, NullChild, "none", 1),
          Callback("ShutdownLocked", NullConfig, NullChild, "none", 1)}
    ELSE {Callback("UpdateLocked", ConfigB, NullChild, "none", 2),
          Callback("ResetBackoffLocked", NullConfig, NullChild, "none", 2)}

\* A producer, or a child with a report to make, hands a callback to the work
\* serializer, at any time, also while a callback is running.
Schedule(cb) ==
  /\ pc # "crashed"
  /\ engine_refs > 0
  /\ Len(submitted) < MaxScheduled
  /\ cb.op = "Report" => cb.child \in adapters
  /\ queue' = Enqueue(queue, cb)
  /\ submitted' = Append(submitted, cb)
  /\ UNCHANGED <<engine_vars, helper_vars, started, child_log, parser_vars>>

NextSerialized ==
  \/ \E p \in {1, 2} : \E cb \in ProducerCalls(p) : Schedule(cb)
  \/ \E c \in InstanceIds : Schedule(Callback("Report", NullConfig, c, "UpdateState", 0))
  \/ queue # <<>> /\ UpdateLocked_Enter(Head(queue).args)
  \/ queue # <<>> /\ ExitIdleLocked
  \/ queue # <<>> /\ ResetBackoffLocked
  \/ queue # <<>> /\ ShutdownLocked
  \/ queue # <<>> /\ Report(Head(queue).child, Head(queue).kind)
  \/ CreateLoadBalancingPolicy
  \/ UpdateLocked_Assign
  \/ UpdateLocked_Forward

SpecSerialized == Init /\ [][NextSerialized]_vars

\* ------------------------------------------------- ParseLoadBalancingConfig
\* line 126: the child policy name when the input names none.
DefaultChildPolicy == "round_robin"

\* line 127: the child configuration when the input gives none.
DefaultChildConfig == FromObject(NoMembers)

\* ChildPolicyField that takes a childPolicy of another type for an empty name.
ChildPolicyFieldNotDefaulted(j) ==
  IF j.type = "object" /\ "childPolicy" \in DOMAIN j.object
    THEN IF j.object["childPolicy"].type = "string"
           THEN j.object["childPolicy"].string
           ELSE ""
    ELSE DefaultChildPolicy

\* lines 126-132: child_policy after the look-up of "childPolicy".
ChildPolicyField(j) ==
  IF /\ j.type = "object"
     /\ "childPolicy" \in DOMAIN j.object
     /\ j.object["childPolicy"].type = "string"
    THEN j.object["childPolicy"].string
    ELSE DefaultChildPolicy

\* lines 127-136: child_config after the look-up of "childPolicyConfig".
ChildConfigField(j) ==
  IF /\ j.type = "object"
     /\ "childPolicyConfig" \in DOMAIN j.object
     /\ j.object["childPolicyConfig"].type = "object"
    THEN j.object["childPolicyConfig"]
    ELSE DefaultChildConfig

\* lines 140-141, 144: the list [{child_policy: child_config}].
LbConfig(cp, cc) == FromArray(<<FromObject(Member(cp, cc))>>)

\* Registry: a child configuration is well-formed when it is an object whose
\* setting, if any, is a number.
WellFormed(cc) ==
  /\ cc.type = "object"
  /\ "setting" \in DOMAIN cc.object => cc.object["setting"].type = "number"

\* Registry: the named policy's typed configuration of a well-formed object.
TypedConfig(cp, cc) ==
  [policy |-> cp,
   setting |-> IF "setting" \in DOMAIN cc.object THEN cc.object["setting"].number ELSE 0]

\* Registry: ParseLoadBalancingConfig of a list with one entry.
RegistryParseLoadBalancingConfig(list) ==
  LET members == list.array[1].object
      cp == CHOOSE k \in DOMAIN members : TRUE
  IN  IF cp \notin Registered
        THEN Err(UnknownChildPolicyStatus)
        ELSE IF ~WellFormed(members[cp])
               THEN Err(InvalidChildConfigurationStatus)
               ELSE Ok(TypedConfig(cp, members[cp]))

\* Returned that makes a Config whatever the registry answered.
ReturnedIgnoringError(cp, ccor) == Ok(ImbalancerConfig(cp, ccor.value))

\* lines 145-147: what ParseLoadBalancingConfig returns.
Returned(cp, ccor) ==
  IF ~ccor.ok THEN Err(ccor.status) ELSE Ok(ImbalancerConfig(cp, ccor.value))

\* lines 126-137: the defaults and the two look-ups.
ParseLoadBalancingConfig_Fields ==
  /\ parse_pc = "fields"
  /\ child_policy' = ChildPolicyField(json)
  /\ child_config' = ChildConfigField(json)
  /\ parse_pc' = "registry"
  /\ UNCHANGED <<json, child_config_or, parsed>>
  /\ UNCHANGED <<engine_vars, helper_vars, serial_vars>>

\* lines 140-144: the registry parses the list.
ParseLoadBalancingConfig_Registry ==
  /\ parse_pc = "registry"
  /\ child_config_or' = RegistryParseLoadBalancingConfig(LbConfig(child_policy, child_config))
  /\ parse_pc' = "return"
  /\ UNCHANGED <<json, child_policy, child_config, parsed>>
  /\ UNCHANGED <<engine_vars, helper_vars, serial_vars>>

\* lines 145-147: the error of the registry, or the ImbalancerConfig.
ParseLoadBalancingConfig_Return ==
  /\ parse_pc = "return"
  /\ parsed' = Returned(child_policy, child_config_or)
  /\ parse_pc' = "done"
  /\ UNCHANGED <<json, child_policy, child_config, child_config_or>>
  /\ UNCHANGED <<engine_vars, helper_vars, serial_vars>>

NextParse ==
  \/ ParseLoadBalancingConfig_Fields
  \/ ParseLoadBalancingConfig_Registry
  \/ ParseLoadBalancingConfig_Return

SpecParse == InitParse /\ [][NextParse]_vars

\* ------------------------------------------------------------------ claims
\* A call of UpdateLocked has completed and is the last call made.
UpdateReturned == pc = "idle" /\ entry.op = "UpdateLocked"

\* The instances the engine holds through child_policy_.
Held == {child_policy_} \ {NullChild}

\* C1: after each call completes, the engine holds either zero or exactly one
\* live child instance: no instance other than the one child_policy_ points
\* to is live.
C1_AtMostOneChildAfterCall ==
  pc = "idle" => (Cardinality(live) <= 1 /\ live = Held)

\* C1 witness: an UpdateLocked that replaced a live child by a new one has
\* completed.
C1_Witness ==
  /\ UpdateReturned
  /\ entry.child # NullChild
  /\ child_policy_ \notin {NullChild, entry.child}
  /\ live = {child_policy_}

\* C2: when UpdateLocked names a child different from the live one, the live
\* child is torn down before the new one is created: at no point of the call,
\* the registry's creation included, are two child instances live.
C2_NoOverlapDuringReplacement ==
  (/\ ~undefined
   /\ entry.op = "UpdateLocked"
   /\ entry.args.kind = "imbalancer"
   /\ entry.child # NullChild
   /\ entry.args.child_policy_name # entry.name)
    => (Cardinality(live) <= 1 /\ (new_child # NullChild => entry.child \notin live))

\* C3: an UpdateLocked naming the live child's name tears down and creates
\* nothing, and its only effect is one update forwarded to that same child.
C3_SameNameKeepsChild ==
  (/\ UpdateReturned
   /\ entry.args.kind = "imbalancer"
   /\ entry.child # NullChild
   /\ entry.args.child_policy_name = entry.name)
    => (/\ child_policy_ = entry.child
        /\ live = {entry.child}
        /\ events = <<Event("UpdateLocked", entry.child, entry.args.child_config)>>)

\* C3 witness: a same-name update has completed on a child whose previous
\* update had returned an error.
C3_Witness ==
  /\ UpdateReturned
  /\ entry.args.kind = "imbalancer"
  /\ entry.child # NullChild
  /\ entry.args.child_policy_name = entry.name
  /\ entry.status = ChildErrorStatus
  /\ calls >= 3

\* C4: once shutting_down_ is true it stays true, and no later step gives the
\* engine a child, enters the registry, creates an instance or forwards
\* anything to a child.
C4_ShutdownIsTerminal ==
  [][shutting_down_ =>
       (/\ shutting_down_'
        /\ child_policy_' = NullChild
        /\ live' = {}
        /\ instances' = instances
        /\ pc' = "idle"
        /\ \A k \in 1..Len(events') :
             events'[k].op \notin
               {"Create", "UpdateLocked", "ExitIdleLocked", "ResetBackoffLocked"})]_vars

\* C4 witness: an UpdateLocked carrying a usable config has completed on an
\* engine that had a child and was shut down before the call.
C4_Witness ==
  /\ UpdateReturned
  /\ entry.shutting_down
  /\ entry.args.kind = "imbalancer"
  /\ entry.args.child_policy_name \in Registered
  /\ instances # <<>>

\* C5 (as stated): between calls, child_policy_name_ is non-empty if and only
\* if a child is present.  (Stated for the runs whose every Config is null or
\* an ImbalancerConfig.)
C5_NameDefinedIffChildPresent ==
  (pc = "idle" /\ ~undefined)
    => ((child_policy_name_ # "") <=> (child_policy_ # NullChild))

\* C5 (amended): between calls, if a child is present then child_policy_name_
\* is non-empty and is the name that child was created under.
C5_ChildPresentImpliesItsName ==
  (pc = "idle" /\ child_policy_ # NullChild)
    => (child_policy_name_ # "" /\ child_policy_name_ = instances[child_policy_])

\* C5 witness: a child created under another name than its predecessor's is
\* present between calls.
C5_Witness ==
  /\ pc = "idle"
  /\ child_policy_ # NullChild
  /\ Len(instances) >= 2
  /\ instances[child_policy_] # instances[1]

\* UpdateLocked has returned a status that is not OK.
UpdateFailed == UpdateReturned /\ status.code \notin {"OK", "NONE"}

\* C6 (as stated): whenever UpdateLocked returns an error, the engine's child
\* is the instance it had before the call, or no child at all.  (Stated for
\* the runs whose every Config is null or an ImbalancerConfig.)
C6_ErrorLeavesPreviousChildOrNone ==
  (UpdateFailed /\ ~undefined) => child_policy_ \in {entry.child, NullChild}

\* C6 (amended): whenever UpdateLocked returns an error, the engine's child is
\* the instance it had before the call, or no child at all, or, when the
\* error is the child's own result, the child this call created, the
\* previous one having been torn down.  A missing config leaves the child as
\* it was and a failed creation leaves none.
C6_ErrorLeavesPreviousNoneOrCreatedChild ==
  UpdateFailed =>
    /\ status = MissingConfigStatus => (child_policy_ = entry.child /\ events = <<>>)
    /\ status = FailedToCreateStatus => child_policy_ = NullChild
    /\ status = ChildErrorStatus =>
         \/ child_policy_ = entry.child /\ entry.child # NullChild
         \/ /\ child_policy_ = new_child
            /\ new_child = Len(instances)
            /\ events[1] = Event("Create", new_child, child_policy_name_)
            /\ live = {new_child}
    /\ status \in {MissingConfigStatus, FailedToCreateStatus, ChildErrorStatus}

\* C6 witness: UpdateLocked returned the error of a child it created in place
\* of a previous child.
C6_Witness ==
  /\ UpdateFailed
  /\ status = ChildErrorStatus
  /\ entry.child # NullChild
  /\ child_policy_ \notin {entry.child, NullChild}

\* The registry was asked for a child by the current call and returned none.
CreationWasRefused ==
  events # <<>> /\ events[1].op = "Create" /\ events[1].child = NullChild

\* C7: when UpdateLocked needs a new child and the registry returns none,
\* UpdateLocked returns the "failed to create child policy" error, forwards
\* the update to no child and leaves the engine without a live child.
C7_FailedCreationLeavesNoChild ==
  (UpdateReturned /\ CreationWasRefused)
    => (/\ status = FailedToCreateStatus
        /\ child_policy_ = NullChild
        /\ live = {}
        /\ \A i \in 1..Len(events) : events[i].op # "UpdateLocked")

\* C7 witness: a creation was refused while a child created under another
\* name was live.
C7_Witness ==
  /\ UpdateReturned
  /\ CreationWasRefused
  /\ entry.child # NullChild
  /\ entry.args.kind = "imbalancer"

\* The spec's abstract state of the engine.
AbstractState(sd, child) ==
  IF sd THEN "Shutdown" ELSE IF child # NullChild THEN "Active" ELSE "Unconfigured"

StateBefore == AbstractState(entry.shutting_down, entry.child)

StateAfter == AbstractState(shutting_down_, child_policy_)

\* C8 (as stated): a call changes the abstract state only from Unconfigured
\* to Active by a successful UpdateLocked, or from Unconfigured or Active to
\* Shutdown by ShutdownLocked; an Active engine never becomes Unconfigured.
\* (Stated for the runs whose every Config is null or an ImbalancerConfig.)
C8_OnlyListedTransitions ==
  (pc = "idle" /\ ~undefined) =>
    \/ StateBefore = StateAfter
    \/ /\ StateBefore = "Unconfigured"
       /\ StateAfter = "Active"
       /\ entry.op = "UpdateLocked"
       /\ status = OkStatus
    \/ /\ StateBefore \in {"Unconfigured", "Active"}
       /\ StateAfter = "Shutdown"
       /\ entry.op = "ShutdownLocked"

\* C8 (amended): a call changes the abstract state only from Unconfigured to
\* Active by an UpdateLocked whose child creation succeeded (whatever the
\* child's update returned), from Active to Unconfigured by an UpdateLocked
\* whose child creation failed, or from Unconfigured or Active to Shutdown by
\* ShutdownLocked; ShutdownLocked always ends in Shutdown and Shutdown is
\* never left.
C8_TransitionsWithFailedCreation ==
  pc = "idle" =>
    /\ \/ StateBefore = StateAfter /\ entry.op # "ShutdownLocked"
       \/ StateBefore = "Shutdown" /\ StateAfter = "Shutdown"
       \/ /\ StateBefore = "Unconfigured"
          /\ StateAfter = "Active"
          /\ entry.op = "UpdateLocked"
          /\ status \in ChildResults
          /\ child_policy_ = new_child
       \/ /\ StateBefore = "Active"
          /\ StateAfter = "Unconfigured"
          /\ entry.op = "UpdateLocked"
          /\ status = FailedToCreateStatus
       \/ /\ StateBefore \in {"Unconfigured", "Active"}
          /\ StateAfter = "Shutdown"
          /\ entry.op = "ShutdownLocked"

\* C8 witness: an Active engine has become Unconfigured.
C8_Witness ==
  /\ pc = "idle"
  /\ ~undefined
  /\ StateBefore = "Active"
  /\ StateAfter = "Unconfigured"

\* C9: UpdateLocked called with a null config on an engine that is not
\* shutting down returns the invalid-argument error for the missing config
\* and leaves child_policy_name_ and the child as they were, creating no
\* child and forwarding nothing.
C9_NullConfigRejected ==
  (UpdateReturned /\ ~entry.shutting_down /\ entry.args.kind = "null")
    => (/\ status = MissingConfigStatus
        /\ child_policy_name_ = entry.name
        /\ child_policy_ = entry.child
        /\ live = Held
        /\ events = <<>>)

\* C9 witness: a null config was rejected while a child was live.
C9_Witness ==
  /\ UpdateReturned
  /\ ~entry.shutting_down
  /\ entry.args.kind = "null"
  /\ entry.child # NullChild
  /\ entry.child \in live

\* C10: UpdateLocked called, on an engine that is not shutting down, with a
\* Config of another class returns the invalid-argument error and neither
\* creates a child nor forwards the update.
C10_WrongKindConfigRejected ==
  (entry.op = "UpdateLocked" /\ ~entry.shutting_down /\ entry.args.kind = "other")
    => (/\ pc = "idle"
        /\ status = MissingConfigStatus
        /\ events = <<>>)

\* C11: an UpdateLocked that starts after ShutdownLocked returns OK whatever
\* its argument (a null Config and a Config of another class included) and
\* changes nothing: no member, no instance, no call on the registry or a
\* child.
C11_UpdateAfterShutdownIsOkNoOp ==
  (entry.op = "UpdateLocked" /\ entry.shutting_down)
    => (/\ pc = "idle"
        /\ status = OkStatus
        /\ shutting_down_
        /\ child_policy_name_ = entry.name
        /\ child_policy_ = entry.child
        /\ live = Held
        /\ events = <<>>)

\* C11 witness: an UpdateLocked with a null Config has returned on an engine
\* that was shut down while it had a child.
C11_Witness ==
  /\ UpdateReturned
  /\ entry.shutting_down
  /\ entry.args.kind = "null"
  /\ entry.name # ""
  /\ instances # <<>>

\* The calls the current call has made on child policies.
ChildCalls == SelectSeq(events, LAMBDA e : e.op \notin {"Create", "Orphan"})

\* C12: whenever UpdateLocked calls a child's UpdateLocked, it does so exactly
\* once, on the current child, with the config that the Config it was given
\* holds for the child, and it returns exactly what the child returned.
C12_ForwardsOnceAndReturnsChildResult ==
  (UpdateReturned /\ ChildCalls # <<>>)
    => (/\ ChildCalls = <<Event("UpdateLocked", child_policy_, config.child_config)>>
        /\ entry.args.kind = "imbalancer" => config.child_config = entry.args.child_config
        /\ child_policy_ \in live
        /\ child_status \in ChildResults
        /\ status = child_status)

\* C12 witness: UpdateLocked has returned the error of a child it created in
\* this call for an ImbalancerConfig.
C12_Witness ==
  /\ UpdateReturned
  /\ entry.args.kind = "imbalancer"
  /\ ChildCalls # <<>>
  /\ child_policy_ = new_child
  /\ child_status = ChildErrorStatus

\* C13: ExitIdleLocked and ResetBackoffLocked make exactly one call, their own
\* signal on the current child, when there is a child, and none otherwise;
\* both leave shutting_down_, child_policy_name_ and child_policy_ as they
\* were, and no instance is created or orphaned.
C13_SignalsForwardedOnce ==
  (pc = "idle" /\ entry.op \in {"ExitIdleLocked", "ResetBackoffLocked"})
    => (/\ events = IF entry.child # NullChild
                       THEN <<Event(entry.op, entry.child, "none")>>
                       ELSE <<>>
        /\ shutting_down_ = entry.shutting_down
        /\ child_policy_name_ = entry.name
        /\ child_policy_ = entry.child
        /\ live = Held)

\* C13 witness: ResetBackoffLocked has been forwarded to a live child.
C13_Witness ==
  /\ pc = "idle"
  /\ entry.op = "ResetBackoffLocked"
  /\ entry.child # NullChild
  /\ events # <<>>

\* C13 witness of the other case: ExitIdleLocked found no child.
C13_WitnessNoChild ==
  /\ pc = "idle"
  /\ entry.op = "ExitIdleLocked"
  /\ entry.child = NullChild
  /\ events = <<>>

\* The calls that forward something to a child.
Signals == {"UpdateLocked", "ExitIdleLocked", "ResetBackoffLocked"}

\* C19: every instance obtained from the registry is orphaned by the engine at
\* most once, and is live exactly until then; nothing is forwarded to an
\* instance the engine has orphaned; after ShutdownLocked every instance
\* created has been orphaned (exactly once).
C19_ReleasedExactlyOnce ==
  /\ Len(orphans) = Len(instances)
  /\ \A i \in 1..Len(instances) :
       /\ orphans[i] <= 1
       /\ orphans[i] = 0 <=> i \in live
  /\ \A k \in 1..Len(events) :
       events[k].op \in Signals => (events[k].child \in live /\ orphans[events[k].child] = 0)
  /\ shutting_down_ => \A i \in 1..Len(instances) : orphans[i] = 1

\* C19 witness: after ShutdownLocked, of two instances created one had been
\* orphaned by its replacement and the other by the shutdown.
C19_Witness ==
  /\ pc = "idle"
  /\ shutting_down_
  /\ entry.op = "ShutdownLocked"
  /\ entry.child = 2
  /\ Len(instances) = 2
  /\ orphans = <<1, 1>>

\* C20: an UpdateLocked that starts, not shut down and with a Config present,
\* after an UpdateLocked whose child creation failed asks the registry for a
\* child again, also for the name that failed; when the registry then returns
\* an instance, that instance becomes the child and receives the update.
C20_FailedCreationNotSticky ==
  (/\ UpdateReturned
   /\ entry.status = FailedToCreateStatus
   /\ ~entry.shutting_down
   /\ entry.args.kind # "null")
    => (/\ events # <<>>
        /\ events[1].op = "Create"
        /\ events[1].config = config.child_policy_name
        /\ entry.args.kind = "imbalancer" =>
             config.child_policy_name = entry.args.child_policy_name
        /\ events[1].child # NullChild =>
             (/\ child_policy_ = events[1].child
              /\ ChildCalls = <<Event("UpdateLocked", events[1].child, config.child_config)>>))

\* C20 witness: the name whose creation had failed was asked for again, the
\* registry returned an instance and the update was forwarded to it.
C20_Witness ==
  /\ UpdateReturned
  /\ entry.status = FailedToCreateStatus
  /\ ~entry.shutting_down
  /\ entry.args.kind = "imbalancer"
  /\ entry.args.child_policy_name = entry.name
  /\ child_policy_ # NullChild
  /\ ChildCalls # <<>>

\* C15: a report that a child makes through its Helper once ShutdownLocked has
\* run is not passed on to the channel.
C15_NoRelayAfterShutdown ==
  (pc = "idle" /\ entry.op = "Report" /\ entry.shutting_down) => relayed = NoReport

\* C16: the engine's reference count is the channel's reference, while it
\* holds it, plus one for each Helper not yet destroyed; so the engine exists
\* as long as a child instance, live or orphaned, owns a Helper.
C16_HelpersKeepEngineAlive ==
  /\ engine_refs = (IF owner_ref THEN 1 ELSE 0) + Cardinality(adapters)
  /\ live \subseteq adapters
  /\ adapters # {} => engine_refs > 0

\* C16 witness: the channel has dropped its reference and the engine is kept
\* by the Helpers of two orphaned instances, one replaced, one shut down.
C16_Witness ==
  /\ ~owner_ref
  /\ Cardinality(adapters) = 2
  /\ live = {}
  /\ engine_refs = 2

\* The registry and child calls of the scheduled callbacks, those of the
\* callback that is running or ran last included.
TotalLog == child_log \o Tagged(events, Len(started))

\* The logged call e is one that callback cb makes.
MadeBy(e, cb) ==
  /\ e.op = "Create" =>
        cb.op = "UpdateLocked" /\ e.config = cb.args.child_policy_name
  /\ e.op = "UpdateLocked" =>
        cb.op = "UpdateLocked" /\ e.config = cb.args.child_config
  /\ e.op = "Orphan" => cb.op \in {"UpdateLocked", "ShutdownLocked"}
  /\ e.op \in {"ExitIdleLocked", "ResetBackoffLocked"} => cb.op = e.op

\* C14: callbacks scheduled on the work serializer by two producers and by the
\* children run one at a time in the order of scheduling: those run are the
\* first of those scheduled, those waiting are the rest, every recorded
\* registry or child call was made by the callback of its rank among those
\* scheduled, the calls of an earlier callback all come before those of a
\* later one, and a callback starts only when no call is in progress.
C14_RunInSubmissionOrder ==
  /\ [](/\ Len(started) <= Len(submitted)
        /\ started = SubSeq(submitted, 1, Len(started))
        /\ queue = SubSeq(submitted, Len(started) + 1, Len(submitted))
        /\ \A n \in 1..Len(TotalLog) :
             /\ TotalLog[n].call \in 1..Len(started)
             /\ MadeBy(TotalLog[n].event, submitted[TotalLog[n].call])
             /\ n > 1 => TotalLog[n - 1].call <= TotalLog[n].call)
  /\ [][started' # started => pc = "idle"]_vars

\* C14 witness: UpdateLocked(A) of producer 1 and UpdateLocked(B) of producer
\* 2 were scheduled in this order, B while A was running or waiting; A created
\* and updated its child, B is replacing it, and a third callback waits.
C14_Witness ==
  /\ Len(submitted) = 3
  /\ submitted[1] = Callback("UpdateLocked", ConfigA, NullChild, "none", 1)
  /\ submitted[2] = Callback("UpdateLocked", ConfigB, NullChild, "none", 2)
  /\ Len(started) = 2
  /\ Len(queue) = 1
  /\ pc = "forward"
  /\ Len(child_log) = 2
  /\ child_log[2].event.op = "UpdateLocked"
  /\ child_log[2].event.config = "child_cfg_1"
  /\ Len(events) = 2

\* The raw input is an object with a member k of type t.
HasField(k, t) ==
  /\ json.type = "object"
  /\ k \in DOMAIN json.object
  /\ json.object[k].type = t

\* The child name and the child configuration the raw input stands for.
NamedChild == IF HasField("childPolicy", "string")
                THEN json.object["childPolicy"].string
                ELSE "round_robin"

GivenChildConfig == IF HasField("childPolicyConfig", "object")
                      THEN json.object["childPolicyConfig"]
                      ELSE FromObject(NoMembers)

\* The registry's parse of the list the raw input stands for.
NestedParse == RegistryParseLoadBalancingConfig(LbConfig(NamedChild, GivenChildConfig))

\* C17: when the registry's parse of [{name: configuration}] succeeds, with
\* name the "childPolicy" member if the input is an object and that member a
\* string and "round_robin" otherwise, and configuration the
\* "childPolicyConfig" member if it is an object and the empty object
\* otherwise, the parser returns a Config with that name and the registry's
\* typed configuration; a member of another type does not make it fail.
C17_DefaultsAndFieldsParsed ==
  (parse_pc = "done" /\ NestedParse.ok)
    => (/\ parsed.ok
        /\ parsed.value.kind = "imbalancer"
        /\ parsed.value.child_policy_name = NamedChild
        /\ parsed.value.child_config = NestedParse.value
        /\ parsed.value.child_config.policy = NamedChild)

\* C17 witness: {"childPolicy": 123, "childPolicyConfig": "x"} was parsed to
\* a Config of round_robin with the typed form of the empty object.
C17_Witness ==
  /\ parse_pc = "done"
  /\ json.type = "object"
  /\ DOMAIN json.object = {"childPolicy", "childPolicyConfig"}
  /\ json.object["childPolicy"] = FromNumber(123)
  /\ json.object["childPolicyConfig"] = FromString("x")
  /\ parsed.ok
  /\ parsed.value.child_policy_name = "round_robin"
  /\ parsed.value.child_config = TypedConfig("round_robin", FromObject(NoMembers))

\* C18: when the registry's parse of the list [{name: configuration}] fails,
\* for a name it does not know or a configuration that is not well-formed,
\* the parser returns the registry's error and no Config; it returns a
\* Config only when that parse succeeded.
C18_NestedFailurePropagated ==
  parse_pc = "done"
    => (/\ child_config_or = NestedParse
        /\ ~NestedParse.ok
             => (/\ ~parsed.ok
                 /\ parsed.status = NestedParse.status
                 /\ parsed.status \in {UnknownChildPolicyStatus,
                                        InvalidChildConfigurationStatus}
                 /\ parsed.value.kind = "null")
        /\ NamedChild \notin Registered => parsed.status = UnknownChildPolicyStatus
        /\ parsed.ok => NestedParse.ok
        /\ parsed.value.kind # "null" => NestedParse.ok)

\* C18 witness: {"childPolicy": "does_not_exist"} was parsed and the parser
\* returned the registry's error for an unknown name.
C18_Witness ==
  /\ parse_pc = "done"
  /\ json = FromObject(Member("childPolicy", FromString("does_not_exist")))
  /\ ~parsed.ok
  /\ parsed.status = UnknownChildPolicyStatus
  /\ parsed.value.kind = "null"

\* C18 second case: a registered name with a configuration that is not
\* well-formed was parsed and the parser returned the registry's error.
C18_WitnessInvalidConfig ==
  /\ parse_pc = "done"
  /\ NamedChild = "pick_first"
  /\ HasField("childPolicyConfig", "object")
  /\ ~parsed.ok
  /\ parsed.status = InvalidChildConfigurationStatus

====
